---------------------------- MODULE Spec2Model ----------------------------
(***************************************************************************)
(* Model of src/main.py, the Instagram media downloader service.           *)
(*                                                                         *)
(* URLs, titles and environment values are sequences of one-character     *)
(* strings, so that strip, unquote, the two regular expressions, re.sub,   *)
(* isdigit, int and rstrip are computed character by character as the      *)
(* Python code computes them.  File names and object keys are sequences of *)
(* name components.                                                        *)
(***************************************************************************)
EXTENDS Integers, Sequences, FiniteSets, TLC

VARIABLES
    \* process-wide state
    yt_dlp,         \* TRUE iff "import yt_dlp" succeeded (main.py:18-24)
    environ,        \* os.environ restricted to the R2_* settings
    dirs,           \* scratch directories that exist on disk
    files,          \* regular files on disk: [dir, name, kind, entries]
    bucket,         \* objects uploaded to the R2 bucket
    \* per-request state (locals of _download_and_respond)
    pc, url, delivery, normalized_url, temp_dir, created, file_paths, zip_path,
    object_name, upload_result, response, background, removed, upload_calls,
    \* the normalizer applied to a drawn input
    raw_url, normalized, renormalized, npc,
    \* the title sanitizer applied to a drawn title
    info_title, title, tpc

procVars == <<yt_dlp, environ>>
diskVars == <<dirs, files, bucket>>
reqVars  == <<pc, url, delivery, normalized_url, temp_dir, created, file_paths,
              zip_path, object_name, upload_result, response, background,
              removed, upload_calls>>
normVars == <<raw_url, normalized, renormalized, npc>>
titleVars == <<info_title, title, tpc>>
vars == <<procVars, diskVars, reqVars, normVars, titleVars>>

----------------------------------------------------------------------------
(* Characters and strings *)

Whitespace == {" ", "\t", "\n"}

UpperToLower ==
    [c \in {"A","B","C","D","E","F","G","H","I","J","K","L","M","N","O","P",
            "Q","R","S","T","U","V","W","X","Y","Z"} |->
        CASE c = "A" -> "a" [] c = "B" -> "b" [] c = "C" -> "c" [] c = "D" -> "d"
          [] c = "E" -> "e" [] c = "F" -> "f" [] c = "G" -> "g" [] c = "H" -> "h"
          [] c = "I" -> "i" [] c = "J" -> "j" [] c = "K" -> "k" [] c = "L" -> "l"
          [] c = "M" -> "m" [] c = "N" -> "n" [] c = "O" -> "o" [] c = "P" -> "p"
          [] c = "Q" -> "q" [] c = "R" -> "r" [] c = "S" -> "s" [] c = "T" -> "t"
          [] c = "U" -> "u" [] c = "V" -> "v" [] c = "W" -> "w" [] c = "X" -> "x"
          [] c = "Y" -> "y" [] c = "Z" -> "z"]

LowerChar(c) == IF c \in DOMAIN UpperToLower THEN UpperToLower[c] ELSE c

\* str.lower()
Lower(s) == [i \in 1..Len(s) |-> LowerChar(s[i])]

RECURSIVE LStrip(_, _)
LStrip(s, cs) ==
    IF s # <<>> /\ Head(s) \in cs THEN LStrip(Tail(s), cs) ELSE s

RECURSIVE RStrip(_, _)
\* str.rstrip(chars)
RStrip(s, cs) ==
    IF s # <<>> /\ s[Len(s)] \in cs THEN RStrip(SubSeq(s, 1, Len(s) - 1), cs) ELSE s

\* str.strip(): leading and trailing whitespace removed
Strip(s) == RStrip(LStrip(s, Whitespace), Whitespace)

\* str.strip(chars)
StripChars(s, cs) == RStrip(LStrip(s, cs), cs)

HexVal ==
    [c \in {"0","1","2","3","4","5","6","7","8","9",
            "a","b","c","d","e","f","A","B","C","D","E","F"} |->
        CASE c = "0" -> 0 [] c = "1" -> 1 [] c = "2" -> 2 [] c = "3" -> 3
          [] c = "4" -> 4 [] c = "5" -> 5 [] c = "6" -> 6 [] c = "7" -> 7
          [] c = "8" -> 8 [] c = "9" -> 9
          [] c \in {"a", "A"} -> 10 [] c \in {"b", "B"} -> 11
          [] c \in {"c", "C"} -> 12 [] c \in {"d", "D"} -> 13
          [] c \in {"e", "E"} -> 14 [] c \in {"f", "F"} -> 15]

HexDigits == DOMAIN HexVal

\* chr() on the byte values that the escapes of the modelled alphabet produce
Chr ==
    (0 :> "<NUL>") @@ (2 :> "<STX>") @@ (5 :> "<ENQ>") @@ (32 :> " ") @@
    (34 :> "\"") @@ (37 :> "%") @@ (80 :> "P") @@ (82 :> "R") @@ (85 :> "U")

RECURSIVE UnquoteFrom(_, _)
UnquoteFrom(s, i) ==
    IF i > Len(s) THEN <<>>
    ELSE IF /\ s[i] = "%"
            /\ i + 2 <= Len(s)
            /\ s[i + 1] \in HexDigits
            /\ s[i + 2] \in HexDigits
         THEN <<Chr[16 * HexVal[s[i + 1]] + HexVal[s[i + 2]]]>> \o UnquoteFrom(s, i + 3)
         ELSE <<s[i]>> \o UnquoteFrom(s, i + 1)

\* urllib.parse.unquote: every %XX escape replaced by its character, once
Unquote(s) == UnquoteFrom(s, 1)

----------------------------------------------------------------------------
(* The two regular expressions *)

Http  == <<"h","t","t","p">>
Https == <<"h","t","t","p","s">>
Www   == <<"w","w","w",".">>
InstagramCom == <<"i","n","s","t","a","g","r","a","m",".","c","o","m","/">>

\* the strings that https?://(www\.)?instagram\.com/ matches, lower-cased
UrlPrefixes ==
    { scheme \o <<":","/","/">> \o www \o InstagramCom :
        scheme \in {Http, Https}, www \in {<<>>, Www} }

\* literal lit matches s at position i, ignoring case (re.IGNORECASE)
MatchesAt(s, i, lit) ==
    /\ i + Len(lit) - 1 <= Len(s)
    /\ Lower(SubSeq(s, i, i + Len(lit) - 1)) = lit

\* the positions right after a prefix matched at i (at most one)
PrefixEnds(s, i) == { i + Len(p) : p \in { q \in UrlPrefixes : MatchesAt(s, i, q) } }

RECURSIVE NonSpaceRunEnd(_, _)
\* [^\s]+ is greedy: the last position of the run of non-whitespace from j
NonSpaceRunEnd(s, j) ==
    IF j + 1 <= Len(s) /\ s[j + 1] \notin Whitespace
    THEN NonSpaceRunEnd(s, j + 1) ELSE j

\* start positions where https?://(?:www\.)?instagram\.com/[^\s]+ matches
SearchStarts(s) ==
    { i \in 1..Len(s) :
        \E e \in PrefixEnds(s, i) : e <= Len(s) /\ s[e] \notin Whitespace }

Min(S) == CHOOSE x \in S : \A y \in S : x <= y

\* (mutant) the match loses its last character
SearchGroup0Short(s) ==
    LET i == Min(SearchStarts(s))
        e == CHOOSE x \in PrefixEnds(s, i) : TRUE
    IN  SubSeq(s, i, NonSpaceRunEnd(s, e) - 1)

\* re.search(...).group(0) when there is a match: the leftmost one
SearchGroup0(s) ==
    LET i == Min(SearchStarts(s))
        e == CHOOSE x \in PrefixEnds(s, i) : TRUE
    IN  SubSeq(s, i, NonSpaceRunEnd(s, e))

\* _normalize_instagram_input
NormalizeInstagramInput(raw) ==
    LET candidate == Unquote(Strip(raw))
    IN  IF SearchStarts(candidate) # {} THEN SearchGroup0(candidate) ELSE candidate

\* (mutant) the pattern checks the scheme only: ^https?://.+
IsValidAnyHost(u) ==
    LET s == Strip(u)
    IN  \E p \in {Http \o <<":","/","/">>, Https \o <<":","/","/">>} :
            MatchesAt(s, 1, p) /\ Len(s) > Len(p)

\* _is_valid_instagram_url: ^https?://(www\.)?instagram\.com/.+ on url.strip();
\* "." matches any character but a newline
IsValidInstagramUrl(u) ==
    LET s == Strip(u)
    IN  \E e \in PrefixEnds(s, 1) : e <= Len(s) /\ s[e] # "\n"

----------------------------------------------------------------------------
(* Title sanitization, main.py:73 *)

Letters == DOMAIN UpperToLower \cup { UpperToLower[c] : c \in DOMAIN UpperToLower }
Digits == {"0","1","2","3","4","5","6","7","8","9"}

\* the characters the class [a-zA-Z0-9._-] accepts
TitleChars == Letters \cup Digits \cup {".", "_", "-"}

InstagramMedia ==
    <<"i","n","s","t","a","g","r","a","m","_","m","e","d","i","a">>

RECURSIVE SubRuns(_, _)
\* re.sub(r"[^a-zA-Z0-9._-]+", "_", s): each maximal run of characters outside
\* the class is replaced by one "_"
SubRuns(s, i) ==
    IF i > Len(s) THEN <<>>
    ELSE IF s[i] \in TitleChars THEN <<s[i]>> \o SubRuns(s, i + 1)
    ELSE IF i > 1 /\ s[i - 1] \notin TitleChars THEN SubRuns(s, i + 1)
    ELSE <<"_">> \o SubRuns(s, i + 1)

\* info.get("title") or "instagram_media": an absent or empty title is falsy
TitleOrDefault(t) ==
    IF t.present /\ t.value # <<>> THEN t.value ELSE InstagramMedia

\* title = re.sub(...).strip("_")
SanitizedTitle(t) == StripChars(SubRuns(TitleOrDefault(t), 1), {"_"})

----------------------------------------------------------------------------
(* Bounds and inputs of the request pipeline *)

\* the claims about concurrency are about pairs of requests
Requests == {"r1", "r2"}

\* most files one fetch leaves in its scratch directory
MaxFiles == 2

\* size of the name space tempfile.mkdtemp draws from
NDirNames == 2

DigitChar ==
    [i \in 0..9 |->
        CASE i = 0 -> "0" [] i = 1 -> "1" [] i = 2 -> "2" [] i = 3 -> "3"
          [] i = 4 -> "4" [] i = 5 -> "5" [] i = 6 -> "6" [] i = 7 -> "7"
          [] i = 8 -> "8" [] i = 9 -> "9"]

\* tempfile.mkdtemp(prefix="ig_dl_")
DirName(i) == <<"ig_dl_", DigitChar[i]>>
DirNames == { DirName(i) : i \in 1..NDirNames }

\* outtmpl "%(id)s.%(ext)s": one file per entry of the post
MediaName(i) == <<"id", DigitChar[i], ".mp4">>

Range(f) == { f[i] : i \in DOMAIN f }

\* the orders in which Path.iterdir may list a set of names
Orders(S) ==
    { f \in [1..Cardinality(S) -> S] : \A i, j \in DOMAIN f : f[i] = f[j] => i = j }

\* an optional value is the empty set (None, or a missing key) or a singleton
Nothing == {}
Some(x) == {x}

UrlReel ==
    <<"h","t","t","p","s",":","/","/","w","w","w",".","i","n","s","t","a","g",
      "r","a","m",".","c","o","m","/","r">>
UrlInText ==
    <<" ","s","e","e"," ","H","T","T","P",":","/","/","I","n","s","t","a","g",
      "r","a","m",".","c","o","m","/","p","%","2","5"," ">>
UrlOtherHost ==
    <<"h","t","t","p","s",":","/","/","x",".","c","o","/","i","n","s","t","a",
      "g","r","a","m",".","c","o","m","/","p">>
UrlNoPath ==
    <<"h","t","t","p","s",":","/","/","i","n","s","t","a","g","r","a","m",".",
      "c","o","m","/">>

\* decodes to a URL whose path starts with a blank
UrlBlankPath ==
    <<"h","t","t","p","s",":","/","/","i","n","s","t","a","g","r","a","m",".",
      "c","o","m","/","%","2","0","p">>

UrlInputs == {UrlReel, UrlInText, UrlOtherHost, UrlNoPath, UrlBlankPath}
FewUrls == {UrlInText, UrlOtherHost}

Link == <<"l","i","n","k">>
DeliveryInputs ==
    {Nothing, Some(<<>>), Some(Link), Some(<<"L","i","N","k">>),
     Some(<<"s","t","r","e","a","m">>)}
FewDeliveries == {Nothing, Some(<<"L","i","N","k">>)}

----------------------------------------------------------------------------
(* Process configuration: os.environ *)

Unset == [set |-> FALSE, value |-> <<>>]
Val(v) == [set |-> TRUE, value |-> v]

\* os.getenv(name, default)
Getenv(env, name, default) == IF env[name].set THEN env[name].value ELSE default

Required == {"R2_ENDPOINT", "R2_BUCKET", "R2_ACCESS_KEY_ID", "R2_SECRET_ACCESS_KEY"}

Complete == [n \in Required |-> Val(<<"v">>)]

\* the required settings with all of them unset, or exactly one unset or blank
Incomplete ==
    { [n \in Required |-> Unset] }
    \cup { [n \in Required |-> IF n = m THEN bad ELSE Val(<<" ","v"," ">>)] :
             m \in Required, bad \in {Unset, Val(<<>>), Val(<<" ">>)} }

PublicBases == {Unset, Val(<<" ">>), Val(<<"b">>), Val(<<"b","/">>), Val(<<" ","b","/","/">>)}

Ttls ==
    {Unset, Val(<<>>), Val(<<"0">>), Val(<<"6","0">>), Val(<<" ","7"," ">>),
     Val(<<"-","5">>), Val(<<"1",".","5">>), Val(<<"1","h">>)}

Env(req, base, ttl) ==
    [n \in Required \cup {"R2_PUBLIC_BASE", "R2_SIGNED_URL_TTL"} |->
        IF n \in Required THEN req[n]
        ELSE IF n = "R2_PUBLIC_BASE" THEN base ELSE ttl]

\* the configurations of the storage settings: every public base and TTL with
\* the required settings complete, and the incomplete ones
AllEnvs ==
    { Env(Complete, base, ttl) : base \in PublicBases, ttl \in Ttls }
    \cup { Env(req, base, Unset) : req \in Incomplete, base \in {Unset, Val(<<"b">>)} }

\* three deployments: public bucket, private bucket, storage not configured
FewEnvs ==
    { Env(Complete, Val(<<"b","/">>), Unset),
      Env(Complete, Unset, Val(<<"6","0">>)),
      Env([n \in Required |-> IF n = "R2_BUCKET" THEN Unset ELSE Val(<<"v">>)], Unset, Unset) }

\* signed-URL validity when R2_SIGNED_URL_TTL is not a digit string
DefaultTtlSeconds == 3600

\* str.isdigit() on ASCII text
IsDigit(s) == s # <<>> /\ \A i \in DOMAIN s : s[i] \in Digits

RECURSIVE ToInt(_)
\* int(s) for a digit string
ToInt(s) == IF s = <<>> THEN 0 ELSE 10 * ToInt(SubSeq(s, 1, Len(s) - 1)) + HexVal[s[Len(s)]]

\* (mutant) the secret key is not checked
GetR2ConfigNoSecret(env) ==
    LET endpoint == Strip(Getenv(env, "R2_ENDPOINT", <<>>))
        bucket_name == Strip(Getenv(env, "R2_BUCKET", <<>>))
        access_key == Strip(Getenv(env, "R2_ACCESS_KEY_ID", <<>>))
    IN  [ok |-> endpoint # <<>> /\ bucket_name # <<>> /\ access_key # <<>>,
         endpoint |-> endpoint, bucket |-> bucket_name, access_key |-> access_key,
         secret_key |-> Strip(Getenv(env, "R2_SECRET_ACCESS_KEY", <<>>)),
         public_base |-> Strip(Getenv(env, "R2_PUBLIC_BASE", <<>>)),
         ttl |-> Strip(Getenv(env, "R2_SIGNED_URL_TTL", <<"3","6","0","0">>))]

\* _get_r2_config: the stripped settings; ok is FALSE where the code raises
GetR2Config(env) ==
    LET endpoint == Strip(Getenv(env, "R2_ENDPOINT", <<>>))
        bucket_name == Strip(Getenv(env, "R2_BUCKET", <<>>))
        access_key == Strip(Getenv(env, "R2_ACCESS_KEY_ID", <<>>))
        secret_key == Strip(Getenv(env, "R2_SECRET_ACCESS_KEY", <<>>))
        public_base == Strip(Getenv(env, "R2_PUBLIC_BASE", <<>>))
        ttl == Strip(Getenv(env, "R2_SIGNED_URL_TTL", <<"3","6","0","0">>))
    IN  [ok |-> endpoint # <<>> /\ bucket_name # <<>> /\ access_key # <<>> /\ secret_key # <<>>,
         endpoint |-> endpoint, bucket |-> bucket_name, access_key |-> access_key,
         secret_key |-> secret_key, public_base |-> public_base, ttl |-> ttl]

\* ttl_seconds = int(config["ttl"]) if config["ttl"].isdigit() else 3600
TtlSeconds(config) == IF IsDigit(config.ttl) THEN ToInt(config.ttl) ELSE DefaultTtlSeconds

\* f"{base}/{object_name}" with base = config["public_base"].rstrip("/")
PublicUrl(config, key) == RStrip(config.public_base, {"/"}) \o <<"/">> \o key

----------------------------------------------------------------------------
(* The filesystem and the archive *)

\* a regular file; entries are the arcnames of an archive, in order
File(d, n, kind, entries) == [dir |-> d, name |-> n, kind |-> kind, entries |-> entries]

Exists(disk, d, n) == \E f \in disk : f.dir = d /\ f.name = n

\* opening a path for writing replaces what was there
WriteFile(disk, f) == { g \in disk : ~(g.dir = f.dir /\ g.name = f.name) } \cup {f}

\* [p for p in temp_dir.iterdir() if p.is_file()], as a set
Listing(disk, d) == { f.name : f \in { g \in disk : g.dir = d } }

\* (mutant) first.with_suffix(".zip"): the suffix is replaced
ZipPathReplacingSuffix(first) == SubSeq(first, 1, Len(first) - 1) \o <<".zip">>

\* first.with_suffix(first.suffix + ".zip")
ZipPath(first) == first \o <<".zip">>

\* (mutant) the loop starts at the second path
ZipEntriesSkipFirst(paths) == Tail(paths)

\* the arcnames _zip_media writes, in order: arcname=file_path.name
ZipEntries(paths) == paths

\* the archive _zip_media leaves on disk next to the first file
ZipMedia(d, paths) == File(d, ZipPath(paths[1]), "zip", ZipEntries(paths))

\* os.remove on each path of todo that exists
RemoveAll(disk, d, todo) == { f \in disk : ~(f.dir = d /\ f.name \in Range(todo)) }

\* (mutant) the archive is left behind
LinkCleanupPathsNoZip(paths, zip) == paths

\* the paths the three cleanup blocks (main.py:184-194, 209-220, 232-240) visit
LinkCleanupPaths(paths, zip) == paths \o <<zip>>
ZipCleanupPaths(paths, zip) == paths \o <<zip>>
FileCleanupPaths(paths) == <<paths[1]>>

\* delivery and delivery.lower() == "link"
WantsLink(dl) == \E v \in dl : v # <<>> /\ Lower(v) = Link

\* f"instagram/{uuid.uuid4().hex}/{zip_path.name}"; uuid4 is unique per call
ObjectName(r, zip) == <<"instagram", "/", "uuid4", r, "/">> \o zip

\* f"{title}_{media_id}{ext}" for a post without a title
DownloadName(first) ==
    SanitizedTitle([present |-> FALSE, value |-> <<>>]) \o <<"_", first[1], first[2], first[3]>>

NoResponse ==
    [status |-> 0, kind |-> "none", detail |-> "", path |-> <<>>, filename |-> <<>>,
     download_url |-> <<>>, expires_in |-> Nothing, signed |-> FALSE]

\* raise HTTPException(status_code, detail), or an exception FastAPI turns into a 500
HttpError(status, detail) ==
    [NoResponse EXCEPT !.status = status, !.kind = "error", !.detail = detail]

\* FileResponse(path=..., filename=...)
FileResponse(kind, path, filename) ==
    [NoResponse EXCEPT !.status = 200, !.kind = kind, !.path = path, !.filename = filename]

\* JSONResponse(payload): expires_in is a key of the payload only if truthy
LinkResponse(result, filename) ==
    [NoResponse EXCEPT !.status = 200, !.kind = "link", !.filename = filename,
                       !.download_url = result.download_url,
                       !.signed = result.signed,
                       !.expires_in = { e \in result.expires_in : e # 0 }]

NoResult == [download_url |-> <<>>, signed |-> FALSE, expires_in |-> Nothing]

----------------------------------------------------------------------------
(* The request pipeline: _download_and_respond, one action per step between *)
(* the points where it can raise or yield.  The steps of one request are    *)
(* interleaved freely with those of the other.                              *)

Finish(r, resp) ==
    /\ pc' = [pc EXCEPT ![r] = "done"]
    /\ response' = [response EXCEPT ![r] = resp]

\* main.py:162-172: normalize, check the extractor, validate
Receive(r, urls, deliveries) ==
    /\ pc[r] = "idle"
    /\ \E u \in urls, dl \in deliveries :
        /\ url' = [url EXCEPT ![r] = u]
        /\ delivery' = [delivery EXCEPT ![r] = dl]
        /\ normalized_url' = [normalized_url EXCEPT ![r] = NormalizeInstagramInput(u)]
        /\ IF ~yt_dlp
           THEN Finish(r, HttpError(500, "yt-dlp is not installed"))
           ELSE IF ~IsValidInstagramUrl(NormalizeInstagramInput(u))
           THEN Finish(r, HttpError(400, "Invalid Instagram URL."))
           ELSE /\ pc' = [pc EXCEPT ![r] = "to_thread"]
                /\ UNCHANGED response
    /\ UNCHANGED <<procVars, diskVars, temp_dir, created, file_paths, zip_path,
                   object_name, upload_result, background, removed, upload_calls,
                   normVars, titleVars>>

\* (mutant) a name is drawn without checking that it is free
MkdtempAnyName == DirNames

\* the names mkdtemp may return: any that is not taken
MkdtempNames == DirNames \ dirs

\* main.py:50, in the worker thread
Mkdtemp(r) ==
    /\ pc[r] = "to_thread"
    /\ \E d \in MkdtempNames :
        /\ temp_dir' = [temp_dir EXCEPT ![r] = d]
        /\ dirs' = dirs \cup {d}
    /\ pc' = [pc EXCEPT ![r] = "extract"]
    /\ UNCHANGED <<procVars, files, bucket, url, delivery, normalized_url, created,
                   file_paths, zip_path, object_name, upload_result, response,
                   background, removed, upload_calls, normVars, titleVars>>

\* main.py:62-78 and 174-177: the extractor writes k files and returns or raises;
\* the files found in the directory are the candidates, in the order iterdir gives
Extract(r) ==
    /\ pc[r] = "extract"
    /\ \E k \in 0..MaxFiles, raised \in BOOLEAN :
        LET d == temp_dir[r]
            written == { File(d, MediaName(i), "media", <<>>) : i \in 1..k }
            disk == { g \in files : ~(\E f \in written : f.dir = g.dir /\ f.name = g.name) }
                    \cup written
            candidates == Listing(disk, d)
        IN  /\ files' = disk
            /\ created' = [created EXCEPT ![r] = { f.name : f \in written }]
            /\ IF raised \/ candidates = {}
               THEN /\ Finish(r, HttpError(422, "Failed to download media"))
                    /\ UNCHANGED file_paths
               ELSE /\ \E order \in Orders(candidates) :
                         file_paths' = [file_paths EXCEPT ![r] = order]
                    /\ pc' = [pc EXCEPT ![r] = "fetched"]
                    /\ UNCHANGED response
    /\ UNCHANGED <<procVars, dirs, bucket, url, delivery, normalized_url, temp_dir,
                   zip_path, object_name, upload_result, background, removed,
                   upload_calls, normVars, titleVars>>

\* _zip_media either completes or raises after writing some of the entries
Zip(r, next) ==
    LET d == temp_dir[r]
        zip == ZipMedia(d, file_paths[r])
    IN  /\ zip_path' = [zip_path EXCEPT ![r] = zip.name]
        /\ created' = [created EXCEPT ![r] = @ \cup {zip.name}]
        /\ \/ /\ \A n \in Range(file_paths[r]) : Exists(files, d, n)
              /\ files' = WriteFile(files, zip)
              /\ next
           \/ /\ \E n \in 0..(Len(zip.entries) - 1) :
                    files' = WriteFile(files, [zip EXCEPT !.entries = SubSeq(@, 1, n)])
              /\ Finish(r, HttpError(500, "Internal Server Error"))
              /\ UNCHANGED background

\* main.py:179-180
LinkZip(r) ==
    /\ pc[r] = "fetched"
    /\ WantsLink(delivery[r])
    /\ Zip(r, /\ pc' = [pc EXCEPT ![r] = "link_zipped"]
              /\ UNCHANGED <<response, background>>)
    /\ UNCHANGED <<procVars, dirs, bucket, url, delivery, normalized_url, temp_dir,
                   file_paths, object_name, upload_result, removed, upload_calls,
                   normVars, titleVars>>

\* main.py:181-182 with _upload_to_r2, main.py:114-141
LinkUpload(r) ==
    /\ pc[r] = "link_zipped"
    /\ LET key == ObjectName(r, zip_path[r])
           config == GetR2Config(environ)
           body == { f \in files : f.dir = temp_dir[r] /\ f.name = zip_path[r] }
           stored == { o \in bucket : o.key # key } \cup { [key |-> key, kind |-> f.kind, entries |-> f.entries] : f \in body }
       IN  /\ object_name' = [object_name EXCEPT ![r] = key]
           /\ \/ /\ ~config.ok
                 /\ Finish(r, HttpError(500, "R2 storage is not configured"))
                 /\ UNCHANGED <<bucket, upload_calls, upload_result>>
              \/ /\ config.ok
                 /\ Finish(r, HttpError(500, "boto3 is required for R2 uploads"))
                 /\ UNCHANGED <<bucket, upload_calls, upload_result>>
              \/ /\ config.ok
                 /\ upload_calls' = [upload_calls EXCEPT ![r] = @ + 1]
                 /\ Finish(r, HttpError(500, "Internal Server Error"))
                 /\ UNCHANGED <<bucket, upload_result>>
              \/ /\ config.ok
                 /\ body # {}
                 /\ upload_calls' = [upload_calls EXCEPT ![r] = @ + 1]
                 /\ bucket' = stored
                 /\ IF config.public_base # <<>>
                    THEN /\ upload_result' = [upload_result EXCEPT ![r] =
                                [download_url |-> PublicUrl(config, key),
                                 signed |-> FALSE, expires_in |-> Nothing]]
                         /\ pc' = [pc EXCEPT ![r] = "link_uploaded"]
                         /\ UNCHANGED response
                    ELSE \/ /\ upload_result' = [upload_result EXCEPT ![r] =
                                   [download_url |-> key, signed |-> TRUE,
                                    expires_in |-> Some(TtlSeconds(config))]]
                            /\ pc' = [pc EXCEPT ![r] = "link_uploaded"]
                            /\ UNCHANGED response
                         \/ /\ Finish(r, HttpError(500, "Internal Server Error"))
                            /\ UNCHANGED upload_result
    /\ UNCHANGED <<procVars, dirs, files, url, delivery, normalized_url, temp_dir,
                   created, file_paths, zip_path, background, removed, normVars,
                   titleVars>>

\* one cleanup block: remove each listed path that exists, then the directory
\* if it exists and is empty
Cleanup(r, todo) ==
    LET d == temp_dir[r]
        Present(n) == Exists(files, d, n)
        disk == RemoveAll(files, d, todo)
        empty == d \in dirs /\ Listing(disk, d) = {}
    IN  /\ files' = disk
        /\ dirs' = IF empty THEN dirs \ {d} ELSE dirs
        /\ removed' = [removed EXCEPT ![r] =
                          @ \o SelectSeq(todo, Present) \o (IF empty THEN <<d>> ELSE <<>>)]

\* main.py:184-194
LinkCleanup(r) ==
    /\ pc[r] = "link_uploaded"
    /\ Cleanup(r, LinkCleanupPaths(file_paths[r], zip_path[r]))
    /\ pc' = [pc EXCEPT ![r] = "link_cleaned"]
    /\ UNCHANGED <<procVars, bucket, url, delivery, normalized_url, temp_dir, created,
                   file_paths, zip_path, object_name, upload_result, response,
                   background, upload_calls, normVars, titleVars>>

\* main.py:196-204
LinkRespond(r) ==
    /\ pc[r] = "link_cleaned"
    /\ Finish(r, LinkResponse(upload_result[r], zip_path[r]))
    /\ UNCHANGED <<procVars, diskVars, url, delivery, normalized_url, temp_dir, created,
                   file_paths, zip_path, object_name, upload_result, background,
                   removed, upload_calls, normVars, titleVars>>

\* main.py:206-228
InlineZip(r) ==
    /\ pc[r] = "fetched"
    /\ ~WantsLink(delivery[r])
    /\ Len(file_paths[r]) > 1
    /\ Zip(r, /\ pc' = [pc EXCEPT ![r] = "transmitting"]
              /\ response' = [response EXCEPT ![r] =
                    FileResponse("zip", ZipPath(file_paths[r][1]), ZipPath(file_paths[r][1]))]
              /\ background' = [background EXCEPT ![r] = "_cleanup_zip"])
    /\ UNCHANGED <<procVars, dirs, bucket, url, delivery, normalized_url, temp_dir,
                   file_paths, object_name, upload_result, removed, upload_calls,
                   normVars, titleVars>>

\* main.py:230-248
InlineFile(r) ==
    /\ pc[r] = "fetched"
    /\ ~WantsLink(delivery[r])
    /\ Len(file_paths[r]) <= 1
    /\ pc' = [pc EXCEPT ![r] = "transmitting"]
    /\ response' = [response EXCEPT ![r] =
          FileResponse("file", file_paths[r][1], DownloadName(file_paths[r][1]))]
    /\ background' = [background EXCEPT ![r] = "_cleanup"]
    /\ UNCHANGED <<procVars, diskVars, url, delivery, normalized_url, temp_dir, created,
                   file_paths, zip_path, object_name, upload_result, removed,
                   upload_calls, normVars, titleVars>>

\* the framework streams the file of the FileResponse to the client; the
\* background task of the response runs once the body is sent
Transmit(r) ==
    /\ pc[r] = "transmitting"
    /\ pc' = [pc EXCEPT ![r] = "sent"]
    /\ UNCHANGED <<procVars, diskVars, url, delivery, normalized_url, temp_dir, created,
                   file_paths, zip_path, object_name, upload_result, response,
                   background, removed, upload_calls, normVars, titleVars>>

\* the BackgroundTask of the response: _cleanup_zip (main.py:209-220) or
\* _cleanup (main.py:232-240)
RunBackground(r) ==
    /\ pc[r] = "sent"
    /\ Cleanup(r, IF background[r] = "_cleanup_zip"
                  THEN ZipCleanupPaths(file_paths[r], zip_path[r])
                  ELSE FileCleanupPaths(file_paths[r]))
    /\ pc' = [pc EXCEPT ![r] = "done"]
    /\ background' = [background EXCEPT ![r] = "ran"]
    /\ UNCHANGED <<procVars, bucket, url, delivery, normalized_url, temp_dir, created,
                   file_paths, zip_path, object_name, upload_result, response,
                   upload_calls, normVars, titleVars>>

Step(r, urls, deliveries) ==
    \/ Receive(r, urls, deliveries)
    \/ Mkdtemp(r)
    \/ Extract(r)
    \/ LinkZip(r)
    \/ LinkUpload(r)
    \/ LinkCleanup(r)
    \/ LinkRespond(r)
    \/ InlineZip(r)
    \/ InlineFile(r)
    \/ Transmit(r)
    \/ RunBackground(r)

RequestsIdle ==
    /\ dirs = {}
    /\ files = {}
    /\ bucket = {}
    /\ pc = [r \in Requests |-> "idle"]
    /\ url = [r \in Requests |-> <<>>]
    /\ delivery = [r \in Requests |-> Nothing]
    /\ normalized_url = [r \in Requests |-> <<>>]
    /\ temp_dir = [r \in Requests |-> <<>>]
    /\ created = [r \in Requests |-> {}]
    /\ file_paths = [r \in Requests |-> <<>>]
    /\ zip_path = [r \in Requests |-> <<>>]
    /\ object_name = [r \in Requests |-> <<>>]
    /\ upload_result = [r \in Requests |-> NoResult]
    /\ response = [r \in Requests |-> NoResponse]
    /\ background = [r \in Requests |-> "none"]
    /\ removed = [r \in Requests |-> <<>>]
    /\ upload_calls = [r \in Requests |-> 0]

NormalizerOff ==
    /\ raw_url = <<>>
    /\ normalized = <<>>
    /\ renormalized = <<>>
    /\ npc = "off"

SanitizerOff ==
    /\ info_title = [present |-> FALSE, value |-> <<>>]
    /\ title = <<>>
    /\ tpc = "off"

\* two concurrent requests under one of three deployments
Init ==
    /\ yt_dlp \in BOOLEAN
    /\ environ \in FewEnvs
    /\ RequestsIdle
    /\ NormalizerOff
    /\ SanitizerOff

Next == \E r \in Requests : Step(r, FewUrls, FewDeliveries)

Spec == Init /\ [][Next]_vars

\* one request under every configuration of the storage settings
InitConfig ==
    /\ yt_dlp \in BOOLEAN
    /\ environ \in AllEnvs
    /\ RequestsIdle
    /\ NormalizerOff
    /\ SanitizerOff

NextConfig == Step("r1", UrlInputs, DeliveryInputs)

SpecConfig == InitConfig /\ [][NextConfig]_vars

----------------------------------------------------------------------------
(* The normalizer on drawn inputs *)

\* longest text drawn after the host part of an input
MaxTailLen == 5

TailAlphabet == {"%", "2", "5", "0", " "}
Tails == UNION { [1..n -> TailAlphabet] : n \in 0..MaxTailLen }

Heads ==
    { <<"h","t","t","p","s",":","/","/","i","n","s","t","a","g","r","a","m",".",
        "c","o","m","/">>,
      <<"x"," ","H","T","T","P",":","/","/","W","W","W",".","I","n","s","t","a",
        "g","r","a","m",".","c","o","m","/">>,
      <<"h","t","t","p","s",":","/","/","x",".","c","o","/">> }

RawInputs == { h \o t : h \in Heads, t \in Tails }

\* normalized_url = _normalize_instagram_input(url), then the validity check
NormalizeOnce ==
    /\ npc = "raw"
    /\ normalized' = NormalizeInstagramInput(raw_url)
    /\ npc' = IF IsValidInstagramUrl(normalized') THEN "valid" ELSE "invalid"
    /\ UNCHANGED <<procVars, diskVars, reqVars, raw_url, renormalized, titleVars>>

\* the normalizer applied to its own output
NormalizeAgain ==
    /\ npc = "valid"
    /\ renormalized' = NormalizeInstagramInput(normalized)
    /\ npc' = "again"
    /\ UNCHANGED <<procVars, diskVars, reqVars, raw_url, normalized, titleVars>>

InitNorm ==
    /\ yt_dlp = TRUE
    /\ environ = Env(Complete, Unset, Unset)
    /\ RequestsIdle
    /\ SanitizerOff
    /\ raw_url \in RawInputs
    /\ normalized = <<>>
    /\ renormalized = <<>>
    /\ npc = "raw"

NextNorm == NormalizeOnce \/ NormalizeAgain

SpecNorm == InitNorm /\ [][NextNorm]_vars

----------------------------------------------------------------------------
(* The title sanitizer on drawn titles *)

\* longest title drawn
MaxTitleLen == 3

TitleAlphabet == {"a", "R", "1", " ", "!", "_", "."}

MyReel == <<"M","y"," ","R","e","e","l","!"," ","#","1">>

InfoTitles ==
    { [present |-> FALSE, value |-> <<>>], [present |-> TRUE, value |-> MyReel] }
    \cup { [present |-> TRUE, value |-> v] :
             v \in UNION { [1..n -> TitleAlphabet] : n \in 0..MaxTitleLen } }

\* main.py:73
Sanitize ==
    /\ tpc = "info"
    /\ title' = SanitizedTitle(info_title)
    /\ tpc' = "title"
    /\ UNCHANGED <<procVars, diskVars, reqVars, normVars, info_title>>

InitTitle ==
    /\ yt_dlp = TRUE
    /\ environ = Env(Complete, Unset, Unset)
    /\ RequestsIdle
    /\ NormalizerOff
    /\ info_title \in InfoTitles
    /\ title = <<>>
    /\ tpc = "info"

NextTitle == Sanitize

SpecTitle == InitTitle /\ [][NextTitle]_vars

----------------------------------------------------------------------------
(* Properties *)

Occurrences(seq, x) == Cardinality({ i \in DOMAIN seq : seq[i] = x })

\* the files on disk in the scratch directory of r
OnDisk(r) == { f \in files : f.dir = temp_dir[r] }

\* no other request has been given the directory name of r
Sole(r) == \A q \in Requests \ {r} : temp_dir[q] # temp_dir[r]

\* every file r created, and its directory, has been removed exactly once
RemovedOnce(r) ==
    /\ \A n \in created[r] : Occurrences(removed[r], n) = 1
    /\ Occurrences(removed[r], temp_dir[r]) = 1

\* nothing of r is left on disk
Gone(r) ==
    /\ RemovedOnce(r)
    /\ Sole(r) => temp_dir[r] \notin dirs /\ OnDisk(r) = {}

\* the complete archive of r is on disk
ZipIntact(r) ==
    \E f \in OnDisk(r) : f.name = zip_path[r] /\ f.kind = "zip" /\ f.entries = file_paths[r]

\* C1: every request that reached the fetch step ends, on every outcome, with
\* every file of its scratch directory and the directory itself removed
\* exactly once.
C1_ScratchRemovedExactlyOnce ==
    \A r \in Requests :
        pc[r] = "done" /\ temp_dir[r] # <<>> => RemovedOnce(r)

\* the target host pattern ^https?://(www\.)?instagram\.com/.+ , ignoring case,
\* on the text without surrounding whitespace
MatchesTargetPattern(s) ==
    LET t == Lower(Strip(s))
    IN  \E scheme \in {Http, Https}, www \in {<<>>, Www} :
            LET p == scheme \o <<":","/","/">> \o www \o InstagramCom
            IN  /\ Len(t) > Len(p)
                /\ SubSeq(t, 1, Len(p)) = p
                /\ t[Len(p) + 1] # "\n"

NeverFetched(r) ==
    /\ pc[r] = "done"
    /\ response[r].kind = "error"
    /\ temp_dir[r] = <<>>
    /\ created[r] = {}
    /\ file_paths[r] = <<>>

\* C2 as stated: an input whose normalized form does not match the pattern ends
\* with the 400 error, with or without the extractor library, and is never
\* fetched.
C2_InvalidUrlIs400 ==
    \A r \in Requests :
        pc[r] # "idle" /\ ~MatchesTargetPattern(normalized_url[r]) =>
            NeverFetched(r) /\ response[r].status = 400

\* C2 amended: such an input is never fetched and no scratch directory is
\* created; it ends with the 400 error when the extractor library is present
\* and with the 500 error when it is absent.
C2_InvalidUrlNeverFetched ==
    \A r \in Requests :
        pc[r] # "idle" /\ ~MatchesTargetPattern(normalized_url[r]) =>
            NeverFetched(r) /\ response[r].status = (IF yt_dlp THEN 400 ELSE 500)

\* an input on another host was refused with 400
C2_Witness ==
    \E r \in Requests :
        /\ pc[r] = "done"
        /\ ~MatchesTargetPattern(normalized_url[r])
        /\ response[r].status = 400
        /\ normalized_url[r] = UrlOtherHost

\* the request was answered with a link
LinkDelivered(r) == pc[r] = "done" /\ response[r].kind = "link"

UploadedObjects(r) == { o \in bucket : o.key = object_name[r] }

SettingMissing ==
    \E n \in Required :
        ~environ[n].set \/ \A i \in DOMAIN environ[n].value : environ[n].value[i] \in Whitespace

InUse(r) == temp_dir[r] # <<>> /\ Occurrences(removed[r], temp_dir[r]) = 0

DistinctScratch ==
    \A r, q \in Requests :
        r # q /\ InUse(r) /\ InUse(q) => temp_dir[r] # temp_dir[q]

\* a step of r leaves the directory of q and the files in it as they were
StepsKeepOthers ==
    \A r, q \in Requests :
        r # q /\ pc'[r] # pc[r] /\ InUse(q) =>
            /\ { f \in files' : f.dir = temp_dir[q] } = { f \in files : f.dir = temp_dir[q] }
            /\ temp_dir[q] \in dirs' <=> temp_dir[q] \in dirs

\* C7: two concurrent requests never hold the same scratch directory, and in
\* every interleaving no step of one request, cleanup included, removes or
\* alters the directory of the other or a file in it.
C7_Isolation == []DistinctScratch /\ [][StepsKeepOthers]_vars

\* one request has cleaned up while the other still serves its files
C7_Witness ==
    \E r, q \in Requests :
        /\ r # q
        /\ pc[r] = "done" /\ Len(removed[r]) > 1
        /\ InUse(q) /\ OnDisk(q) # {} /\ pc[q] = "sent"

\* C8 as stated, for the expiry: with a public base configured the response
\* carries no expires_in; otherwise the URL is signed for the TTL (3600 when the
\* setting is unset or not a number) and expires_in equals that TTL.
C8_ExpiresInEqualsTtl ==
    \A r \in Requests :
        response[r].kind = "link" =>
            LET base == Strip(Getenv(environ, "R2_PUBLIC_BASE", <<>>))
                ttl == Strip(Getenv(environ, "R2_SIGNED_URL_TTL", <<"3","6","0","0">>))
                seconds == IF IsDigit(ttl) THEN ToInt(ttl) ELSE DefaultTtlSeconds
            IN  IF base # <<>>
                THEN ~response[r].signed /\ response[r].expires_in = Nothing
                ELSE /\ response[r].signed
                     /\ upload_result[r].expires_in = Some(seconds)
                     /\ response[r].expires_in = Some(seconds)

\* C8 as stated, for the public URL: it is the configured base, "/" and the key
C8_PublicUrlIsBaseSlashKey ==
    \A r \in Requests :
        response[r].kind = "link" /\ ~response[r].signed =>
            response[r].download_url =
                Strip(Getenv(environ, "R2_PUBLIC_BASE", <<>>)) \o <<"/">> \o object_name[r]

\* the title is absent, empty or only whitespace
BlankTitle(t) == ~t.present \/ \A i \in DOMAIN t.value : t.value[i] \in Whitespace

\* the positions of s that survive: the characters of the class and the first
\* character of each run outside it
Kept(s) == { i \in DOMAIN s : s[i] \in TitleChars \/ i = 1 \/ s[i - 1] \in TitleChars }

\* s with each maximal run outside the class replaced by one "_"
Collapsed(s) ==
    [k \in 1..Cardinality(Kept(s)) |->
        LET i == CHOOSE j \in Kept(s) : Cardinality({ m \in Kept(s) : m <= j }) = k
        IN  IF s[i] \in TitleChars THEN s[i] ELSE "_"]

\* s without its leading and trailing underscores
Trimmed(s) ==
    LET solid == { i \in DOMAIN s : s[i] # "_" }
    IN  IF solid = {} THEN <<>>
        ELSE SubSeq(s, Min(solid), CHOOSE i \in solid : \A j \in solid : j <= i)

\* C9: the sanitized base of a blank (absent, empty, whitespace-only) title is
\* the placeholder "instagram_media", never the empty string; of any other
\* title it is the title with each run outside [A-Za-z0-9._-] collapsed to one
\* "_" and the underscores at both ends stripped.
C9_SanitizedTitle ==
    tpc = "title" =>
        IF BlankTitle(info_title)
        THEN title = InstagramMedia /\ title # <<>>
        ELSE title = Trimmed(Collapsed(info_title.value))

\* the part of C9 about titles that are not blank
C9_CollapsedAndTrimmed ==
    tpc = "title" /\ ~BlankTitle(info_title) => title = Trimmed(Collapsed(info_title.value))

\* s holds a percent escape: "%" and two hexadecimal digits
HasEscape(s) ==
    \E i \in DOMAIN s :
        s[i] = "%" /\ i + 2 <= Len(s) /\ s[i + 1] \in HexDigits /\ s[i + 2] \in HexDigits

\* C10 as stated: normalizing a valid normalized URL again yields the same URL.
C10_NormalizeIdempotent ==
    npc = "again" => renormalized = normalized

\* C10 amended: normalizing a valid normalized URL again yields the same URL
\* provided the normalized URL holds no percent escape and neither starts nor
\* ends with whitespace.
C10_IdempotentWithoutEscapes ==
    npc = "again" /\ ~HasEscape(normalized) /\ Strip(normalized) = normalized =>
        renormalized = normalized

\* an input with an escape whose normalized form holds none
C10_Witness ==
    /\ npc = "again"
    /\ HasEscape(raw_url)
    /\ ~HasEscape(normalized)
    /\ Strip(normalized) = normalized
    /\ renormalized = normalized

============================================================================
